---- MODULE Spec2Model ----
(***************************************************************************)
(* The raw state handles of the LV2 state crate (state/src/raw.rs):        *)
(* RawStoreHandle buffers drafted properties and commits them through the  *)
(* host's store callback; RawRetrieveHandle wraps the host's retrieve      *)
(* callback.                                                               *)
(***************************************************************************)
EXTENDS Integers, Sequences, FiniteSets, TLC

(* ---------------------------------------------------------------- bounds *)
MaxKey == 2
MaxDrafts == 2
MaxWrites == 3
MaxMem == 3

(* ------------------------------------------------------------- constants *)
HeaderLen == 8
LV2_STATE_IS_POD == 1
LV2_STATE_IS_PORTABLE == 2
LV2_STATE_SUCCESS == 0
LV2_STATE_ERR_NO_SPACE == 6

Keys == 1..MaxKey

\* The atoms a caller writes: the header fields (declared size, type URID), and
\* the body 17, 18, 19, ... appended a byte at a time.
Headers == {[size |-> 1, type |-> 1], [size |-> 2, type |-> 2]}
BodyByte(n) == 17 + n
HostStatuses == {LV2_STATE_SUCCESS, LV2_STATE_ERR_NO_SPACE}

VARIABLES
    properties,   \* RawStoreHandle.properties: key -> SpaceElement (sequence of written chunks)
    store_fn,     \* RawStoreHandle.store_fn is Some (TRUE) or None (FALSE)
    loading,      \* a RawRetrieveHandle exists (the load session has begun)
    retrieve_fn,  \* RawRetrieveHandle.retrieve_fn is Some (TRUE) or None (FALSE)
    alive,        \* the store handle has not been dropped
    writer,       \* key whose StatePropertyWriter is live (borrowing the handle), 0 if none
    storage,      \* the host's storage: key -> [type, data]
    op,           \* the most recent operation: [name, key, had]; had is the mapping's
                  \* key set when commit or commit_all was called
    ret,          \* its return value: [kind, type, data]
    calls,        \* the host store calls it made, in order
    processed,    \* commit_all: the (key, result) pairs it ran commit_pair on, in order
    draftCount,   \* history: number of draft(K) calls
    storeCount,   \* history: number of host store calls for K
    fate,         \* history: what became of the most recent draft(K)
    atom,         \* what the caller has written through the writer since draft(K)
    saved,        \* history: the well-formed atom whose commit last succeeded for K
    redrafted,    \* history: the most recent draft(K) replaced a written, uncommitted draft
    taken,        \* history: what the caller had written to the drafts that the most
                  \* recent commit or commit_all took out of the mapping (key -> atom)
    resp          \* what the host's retrieve callback answered to the most recent retrieve

vars == <<properties, store_fn, loading, retrieve_fn, alive, writer, storage, op, ret,
          calls, processed, draftCount, storeCount, fate, atom, saved, redrafted,
          taken, resp>>

(* --------------------------------------------------------------- helpers *)
EmptyMap == [k \in {} |-> <<>>]

Remove(m, K) == [k \in (DOMAIN m) \ {K} |-> m[k]]

Insert(m, K, v) == [k \in (DOMAIN m) \cup {K} |-> IF k = K THEN v ELSE m[k]]

RECURSIVE Flatten(_)
Flatten(chunks) ==
    IF chunks = <<>> THEN <<>> ELSE Head(chunks) \o Flatten(Tail(chunks))

\* SpaceElement::to_vec: the allocated chunks, concatenated.
to_vec(space) == Flatten(space)

\* A little-endian u32 as the writer lays it out, and as the header is read back.
LE32(n) == << n % 256, (n \div 256) % 256, (n \div 65536) % 256, (n \div 16777216) % 256 >>

U32(bytes, at) ==
    bytes[at + 1] + 256 * bytes[at + 2] + 65536 * bytes[at + 3] + 16777216 * bytes[at + 4]

\* The bytes of an LV2_Atom header: size, then type.
HeaderBytes(h) == LE32(h.size) \o LE32(h.type)

Unit == [kind |-> "Unit", type |-> 0, data |-> <<>>]
Val(kind) == [kind |-> kind, type |-> 0, data |-> <<>>]
View(type, data) == [kind |-> "View", type |-> type, data |-> data]

\* Space::split_type::<LV2_Atom>: the header and the bytes after it.
split_type(bytes) ==
    IF Len(bytes) < HeaderLen
    THEN [ok |-> FALSE, size |-> 0, type |-> 0, data |-> <<>>]
    ELSE [ok |-> TRUE, size |-> U32(bytes, 0), type |-> U32(bytes, 4),
          data |-> SubSeq(bytes, HeaderLen + 1, Len(bytes))]

\* Space::split_raw(size): the first size bytes, if there are that many.
split_raw(data, size) ==
    IF size > Len(data)
    THEN [ok |-> FALSE, data |-> <<>>]
    ELSE [ok |-> TRUE, data |-> SubSeq(data, 1, size)]

\* StateErr::from: the host's status as a result.
StateErrFrom(status) ==
    CASE status = 0 -> "Ok"
      [] status = 1 -> "Unknown"
      [] status = 2 -> "BadType"
      [] status = 3 -> "BadFlags"
      [] status = 4 -> "NoFeature"
      [] status = 5 -> "NoProperty"
      [] status = 6 -> "NoSpace"
      [] OTHER -> "Unknown"

\* LV2_STATE_IS_POD | LV2_STATE_IS_PORTABLE (distinct bits).
StoreFlags == LV2_STATE_IS_POD + LV2_STATE_IS_PORTABLE

(* ----------------------------------------------------------- commit_pair *)
\* commit_pair: the result and the host call made (none or one); status is
\* what the host's store callback answers if it is called.
\* Variant: the payload pointer is taken at the start of the space, header included.
commit_pair_nosplit(fn, key, space, status) ==
    IF ~fn THEN [ret |-> "BadCallback", call |-> <<>>]
    ELSE LET bytes == to_vec(space)
             hd == split_type(bytes)
         IN  IF ~hd.ok THEN [ret |-> "BadData", call |-> <<>>]
             ELSE LET d == split_raw(hd.data, hd.size)
                  IN  IF ~d.ok THEN [ret |-> "BadData", call |-> <<>>]
                      ELSE [ret |-> StateErrFrom(status),
                            call |-> << [key |-> key, type |-> hd.type,
                                         data |-> SubSeq(bytes, 1, hd.size), size |-> hd.size,
                                         flags |-> StoreFlags, status |-> status] >>]

\* Variant: everything after the header is passed, whatever size it declares.
commit_pair_untrimmed(fn, key, space, status) ==
    IF ~fn THEN [ret |-> "BadCallback", call |-> <<>>]
    ELSE LET bytes == to_vec(space)
             hd == split_type(bytes)
         IN  IF ~hd.ok THEN [ret |-> "BadData", call |-> <<>>]
             ELSE LET d == split_raw(hd.data, hd.size)
                  IN  IF ~d.ok THEN [ret |-> "BadData", call |-> <<>>]
                      ELSE [ret |-> StateErrFrom(status),
                            call |-> << [key |-> key, type |-> hd.type,
                                         data |-> hd.data, size |-> Len(hd.data),
                                         flags |-> StoreFlags, status |-> status] >>]

\* Variant: a declared size beyond the available bytes is clamped, not rejected.
commit_pair_clamped(fn, key, space, status) ==
    IF ~fn THEN [ret |-> "BadCallback", call |-> <<>>]
    ELSE LET bytes == to_vec(space)
             hd == split_type(bytes)
         IN  IF ~hd.ok THEN [ret |-> "BadData", call |-> <<>>]
             ELSE LET n == IF hd.size > Len(hd.data) THEN Len(hd.data) ELSE hd.size
                  IN  [ret |-> StateErrFrom(status),
                       call |-> << [key |-> key, type |-> hd.type,
                                    data |-> SubSeq(hd.data, 1, n), size |-> n,
                                    flags |-> StoreFlags, status |-> status] >>]

\* Variant: the draft is validated before the store function is looked at.
commit_pair_validate_first(fn, key, space, status) ==
    LET bytes == to_vec(space)
        hd == split_type(bytes)
    IN  IF ~hd.ok THEN [ret |-> "BadData", call |-> <<>>]
        ELSE LET d == split_raw(hd.data, hd.size)
             IN  IF ~d.ok THEN [ret |-> "BadData", call |-> <<>>]
                 ELSE IF ~fn THEN [ret |-> "BadCallback", call |-> <<>>]
                 ELSE [ret |-> StateErrFrom(status),
                       call |-> << [key |-> key, type |-> hd.type,
                                    data |-> d.data, size |-> hd.size,
                                    flags |-> StoreFlags, status |-> status] >>]

commit_pair(fn, key, space, status) ==
    IF ~fn THEN [ret |-> "BadCallback", call |-> <<>>]
    ELSE LET bytes == to_vec(space)
             hd == split_type(bytes)
         IN  IF ~hd.ok THEN [ret |-> "BadData", call |-> <<>>]
             ELSE LET d == split_raw(hd.data, hd.size)
                  IN  IF ~d.ok THEN [ret |-> "BadData", call |-> <<>>]
                      ELSE [ret |-> StateErrFrom(status),
                            call |-> << [key |-> key, type |-> hd.type,
                                         data |-> d.data, size |-> hd.size,
                                         flags |-> StoreFlags, status |-> status] >>]

\* The host's store callback (a host that stores what it receives).
HostStore(st, call) ==
    IF call.status = LV2_STATE_SUCCESS
    THEN Insert(st, call.key, [type |-> call.type, data |-> SubSeq(call.data, 1, call.size)])
    ELSE st

RECURSIVE HostStoreAll(_, _)
HostStoreAll(st, cs) ==
    IF cs = <<>> THEN st ELSE HostStoreAll(HostStore(st, Head(cs)), Tail(cs))

CountCalls(cs, K) == Cardinality({i \in 1..Len(cs) : cs[i].key = K})

(* ------------------------------------------------------- history helpers *)
NoAtom == [type |-> 0, size |-> 0, body |-> <<>>]
NoResp == [null |-> TRUE, size |-> 0, type |-> 0, bytes |-> <<>>]
NoSaved == [wf |-> FALSE, type |-> 0, bytes |-> <<>>]

\* The atom the caller wrote is well formed: a header, then exactly size bytes.
WellFormed(a) == a.type # 0 /\ a.size = Len(a.body)

SavedOf(a) ==
    IF WellFormed(a) THEN [wf |-> TRUE, type |-> a.type, bytes |-> a.body] ELSE NoSaved

Op(name, key, had) == [name |-> name, key |-> key, had |-> had]

ProcessedKeys(ps) == {ps[i].key : i \in 1..Len(ps)}
OkKeys(ps) == {ps[i].key : i \in {j \in 1..Len(ps) : ps[j].ret = "Ok"}}

(* ------------------------------------------------------------------ Init *)
Init ==
    /\ properties = EmptyMap
    /\ store_fn \in BOOLEAN
    /\ loading = FALSE
    /\ retrieve_fn = FALSE
    /\ alive = TRUE
    /\ writer = 0
    /\ storage = EmptyMap
    /\ op = Op("new", 0, {})
    /\ ret = Unit
    /\ calls = <<>>
    /\ processed = <<>>
    /\ draftCount = [k \in Keys |-> 0]
    /\ storeCount = [k \in Keys |-> 0]
    /\ fate = [k \in Keys |-> "never"]
    /\ atom = [k \in Keys |-> NoAtom]
    /\ saved = [k \in Keys |-> NoSaved]
    /\ redrafted = [k \in Keys |-> FALSE]
    /\ taken = EmptyMap
    /\ resp = NoResp

RECURSIVE SumOver(_, _)
SumOver(f, S) ==
    IF S = {} THEN 0
    ELSE LET k == CHOOSE x \in S : TRUE IN f[k] + SumOver(f, S \ {k})

(* ----------------------------------------------------------------- draft *)
\* draft, lines 64-65: insert an empty SpaceElement, replacing any present.
\* Variant: an entry already present is kept (entry().or_default()).
draft_keep(props, K) == IF K \in DOMAIN props THEN props ELSE Insert(props, K, <<>>)

draft_insert(props, K) == Insert(props, K, <<>>)

draft(K) ==
    /\ alive
    /\ SumOver(draftCount, Keys) < MaxDrafts
    /\ properties' = draft_insert(properties, K)
    /\ writer' = K
    /\ op' = Op("draft", K, {})
    /\ taken' = EmptyMap
    /\ resp' = resp
    /\ ret' = Unit
    /\ calls' = <<>>
    /\ processed' = <<>>
    /\ draftCount' = [draftCount EXCEPT ![K] = @ + 1]
    /\ fate' = [fate EXCEPT ![K] = "drafted"]
    /\ atom' = [atom EXCEPT ![K] = NoAtom]
    /\ redrafted' = [redrafted EXCEPT
                       ![K] = K \in DOMAIN properties /\ to_vec(properties[K]) # <<>>]
    /\ UNCHANGED <<store_fn, loading, retrieve_fn, alive, storage, storeCount, saved>>

\* The writer returned by draft appends a chunk to the drafted SpaceElement.
Write(chunk) ==
    /\ alive
    /\ writer \in DOMAIN properties
    /\ properties' = [properties EXCEPT ![writer] = Append(@, chunk)]
    /\ op' = Op("write", writer, {})
    /\ taken' = EmptyMap
    /\ resp' = resp
    /\ ret' = Unit
    /\ calls' = <<>>
    /\ processed' = <<>>
    /\ UNCHANGED <<store_fn, loading, retrieve_fn, alive, writer, storage, draftCount,
                   storeCount, fate, saved, redrafted>>

\* The writer's init lays down the atom header first ...
WriteHeader ==
    /\ writer \in Keys
    /\ atom[writer] = NoAtom
    /\ \E h \in Headers :
         /\ Write(HeaderBytes(h))
         /\ atom' = [atom EXCEPT ![writer] = [type |-> h.type, size |-> h.size, body |-> <<>>]]

\* ... and the atom's body, possibly in several appends, after it.
WritePayload ==
    /\ writer \in Keys
    /\ atom[writer] # NoAtom
    /\ 1 + Len(atom[writer].body) < MaxWrites
    /\ LET p == << BodyByte(Len(atom[writer].body)) >>
       IN  /\ Write(p)
           /\ atom' = [atom EXCEPT ![writer].body = @ \o p]

(* ---------------------------------------------------------------- commit *)
\* commit, line 79: remove the entry; an absent key ends the call with None.
\* Variant: the entry is read, not removed (get instead of remove).
commit_keep(props, K) == props

commit_remove(props, K) == Remove(props, K)

\* commit, lines 79-80: None for an absent key, else Some(commit_pair(..)).
\* Variant: an absent key is committed as an empty draft (unwrap_or_default).
commit_result_default(props, fn, K, status) ==
    commit_pair(fn, K, IF K \in DOMAIN props THEN props[K] ELSE <<>>, status)

commit_result(props, fn, K, status) ==
    IF K \notin DOMAIN props
    THEN [ret |-> "None", call |-> <<>>]
    ELSE commit_pair(fn, K, props[K], status)

commit(K) ==
    /\ alive
    /\ \E status \in HostStatuses :
         LET r == commit_result(properties, store_fn, K, status)
         IN  /\ properties' = commit_remove(properties, K)
             /\ ret' = Val(r.ret)
             /\ calls' = r.call
             /\ storage' = HostStoreAll(storage, r.call)
             /\ storeCount' = [k \in Keys |-> storeCount[k] + CountCalls(r.call, k)]
             /\ fate' = [fate EXCEPT ![K] = IF @ # "drafted" THEN @
                                            ELSE IF r.ret = "Ok" THEN "committed" ELSE "failed"]
             /\ saved' = [saved EXCEPT ![K] = IF r.ret = "Ok" THEN SavedOf(atom[K]) ELSE @]
    /\ writer' = 0
    /\ op' = Op("commit", K, DOMAIN properties)
    /\ taken' = [k \in {K} \cap DOMAIN properties |-> atom[k]]
    /\ resp' = resp
    /\ processed' = <<>>
    /\ atom' = [atom EXCEPT ![K] = NoAtom]
    /\ UNCHANGED <<store_fn, loading, retrieve_fn, alive, draftCount, redrafted>>

(* ------------------------------------------------------------ commit_all *)
\* The orders in which HashMap::drain may yield the entries.
DrainOrders(props) ==
    LET S == DOMAIN props
    IN  {o \in [1..Cardinality(S) -> S] : \A i, j \in DOMAIN o : i # j => o[i] # o[j]}

\* commit_all, lines 72-75: commit_pair on each drained entry, `?` returning at
\* the first error.
\* Variant: the loop goes on after an error and the first error is returned.
RECURSIVE commit_all_from_continue(_, _, _, _, _, _)
commit_all_from_continue(props, fn, order, status, i, acc) ==
    IF i > Len(order)
    THEN [ret |-> acc.ret, processed |-> acc.processed, calls |-> acc.calls]
    ELSE LET k == order[i]
             r == commit_pair(fn, k, props[k], status[k])
             next == [ret |-> IF acc.ret = "Ok" THEN r.ret ELSE acc.ret,
                      processed |-> Append(acc.processed, [key |-> k, ret |-> r.ret]),
                      calls |-> acc.calls \o r.call]
         IN  commit_all_from_continue(props, fn, order, status, i + 1, next)

RECURSIVE commit_all_from(_, _, _, _, _, _)
commit_all_from(props, fn, order, status, i, acc) ==
    IF i > Len(order)
    THEN [ret |-> acc.ret, processed |-> acc.processed, calls |-> acc.calls]
    ELSE LET k == order[i]
             r == commit_pair(fn, k, props[k], status[k])
             next == [ret |-> r.ret,
                      processed |-> Append(acc.processed, [key |-> k, ret |-> r.ret]),
                      calls |-> acc.calls \o r.call]
         IN  IF r.ret # "Ok"
             THEN next
             ELSE commit_all_from(props, fn, order, status, i + 1, next)

\* Variant: the store function is checked once, before the loop.
commit_all_run_checked(props, fn, order, status) ==
    IF ~fn
    THEN [ret |-> "BadCallback", processed |-> <<>>, calls |-> <<>>]
    ELSE commit_all_from(props, fn, order, status, 1,
                         [ret |-> "Ok", processed |-> <<>>, calls |-> <<>>])

commit_all_run(props, fn, order, status) ==
    commit_all_from(props, fn, order, status, 1,
                    [ret |-> "Ok", processed |-> <<>>, calls |-> <<>>])

\* commit_all, line 72: the Drain iterator empties the map, also when the loop
\* is left early (dropping it removes the entries not yet yielded).
\* Variant: the map is iterated, not drained.
commit_all_iter(props, done) == props

\* Variant: only the entries the loop reached are removed.
commit_all_leave(props, done) == [k \in (DOMAIN props) \ ProcessedKeys(done) |-> props[k]]

commit_all_rest(props, done) == EmptyMap

commit_all ==
    /\ alive
    /\ \E order \in DrainOrders(properties) :
       \E status \in [DOMAIN properties -> HostStatuses] :
         LET r == commit_all_run(properties, store_fn, order, status)
         IN  /\ properties' = commit_all_rest(properties, r.processed)
             /\ ret' = Val(r.ret)
             /\ calls' = r.calls
             /\ processed' = r.processed
             /\ storage' = HostStoreAll(storage, r.calls)
             /\ storeCount' = [k \in Keys |-> storeCount[k] + CountCalls(r.calls, k)]
             /\ fate' = [k \in Keys |->
                           IF fate[k] # "drafted" THEN fate[k]
                           ELSE IF k \in OkKeys(r.processed) THEN "committed"
                           ELSE IF k \in ProcessedKeys(r.processed) THEN "failed"
                           ELSE "unprocessed"]
             /\ saved' = [k \in Keys |->
                            IF k \in OkKeys(r.processed) THEN SavedOf(atom[k]) ELSE saved[k]]
    /\ writer' = 0
    /\ op' = Op("commit_all", 0, DOMAIN properties)
    /\ taken' = [k \in DOMAIN properties |-> atom[k]]
    /\ resp' = resp
    /\ atom' = [k \in Keys |-> NoAtom]
    /\ UNCHANGED <<store_fn, loading, retrieve_fn, alive, draftCount, redrafted>>

(* --------------------------------------------------------------- discard *)
\* discard_all, line 84.
discard_all_clear(props) == EmptyMap

discard_all ==
    /\ alive
    /\ properties' = discard_all_clear(properties)
    /\ writer' = 0
    /\ op' = Op("discard_all", 0, {})
    /\ taken' = EmptyMap
    /\ resp' = resp
    /\ ret' = Unit
    /\ calls' = <<>>
    /\ processed' = <<>>
    /\ fate' = [k \in Keys |-> IF fate[k] = "drafted" THEN "discarded" ELSE fate[k]]
    /\ atom' = [k \in Keys |-> NoAtom]
    /\ redrafted' = [k \in Keys |-> FALSE]
    /\ UNCHANGED <<store_fn, loading, retrieve_fn, alive, storage, draftCount,
                   storeCount, saved>>

\* discard, line 88.
\* Variant: the whole map is cleared.
discard_clear(props, K) == EmptyMap

\* Variant: the entry is looked up, not removed.
discard_noop(props, K) == props

discard_remove(props, K) == Remove(props, K)

discard(K) ==
    /\ alive
    /\ properties' = discard_remove(properties, K)
    /\ writer' = 0
    /\ op' = Op("discard", K, {})
    /\ taken' = EmptyMap
    /\ resp' = resp
    /\ ret' = Unit
    /\ calls' = <<>>
    /\ processed' = <<>>
    /\ fate' = [fate EXCEPT ![K] = IF @ = "drafted" THEN "discarded" ELSE @]
    /\ atom' = [atom EXCEPT ![K] = NoAtom]
    /\ redrafted' = [redrafted EXCEPT ![K] = FALSE]
    /\ UNCHANGED <<store_fn, loading, retrieve_fn, alive, storage, draftCount,
                   storeCount, saved>>

(* ------------------------------------------------------------------ drop *)
\* Dropping the handle frees the buffered drafts; no host call is made.
\* Variant: the handle flushes its drafts when dropped.
drop_flush(props, fn) ==
    LET order == CHOOSE o \in DrainOrders(props) : TRUE
    IN  commit_all_run(props, fn, order, [k \in DOMAIN props |-> LV2_STATE_SUCCESS]).calls

drop_calls(props, fn) == <<>>

Drop ==
    /\ alive
    /\ alive' = FALSE
    /\ calls' = drop_calls(properties, store_fn)
    /\ storage' = HostStoreAll(storage, calls')
    /\ storeCount' = [k \in Keys |-> storeCount[k] + CountCalls(calls', k)]
    /\ properties' = EmptyMap
    /\ writer' = 0
    /\ op' = Op("drop", 0, {})
    /\ taken' = EmptyMap
    /\ resp' = resp
    /\ ret' = Unit
    /\ processed' = <<>>
    /\ atom' = [k \in Keys |-> NoAtom]
    /\ redrafted' = [k \in Keys |-> FALSE]
    /\ UNCHANGED <<store_fn, loading, retrieve_fn, draftCount, fate, saved>>

(* -------------------------------------------------------------- retrieve *)
\* RawRetrieveHandle::new: a load session follows the save session, with the
\* retrieve function the host supplies (possibly null).
retrieve_new ==
    /\ ~alive
    /\ ~loading
    /\ loading' = TRUE
    /\ retrieve_fn' \in BOOLEAN
    /\ op' = Op("retrieve_new", 0, {})
    /\ taken' = EmptyMap
    /\ resp' = resp
    /\ ret' = Unit
    /\ calls' = <<>>
    /\ processed' = <<>>
    /\ UNCHANGED <<properties, store_fn, alive, writer, storage, draftCount,
                   storeCount, fate, atom, saved, redrafted>>

\* The host's retrieve callback: pointer (null on a miss), size and type.
HostRetrieve(st, K) ==
    IF K \in DOMAIN st
    THEN [null |-> FALSE, size |-> Len(st[K].data), type |-> st[K].type, bytes |-> st[K].data]
    ELSE [null |-> TRUE, size |-> 0, type |-> 0, bytes |-> <<>>]

\* Variant: the reported type is wrapped unchecked (URID::new_unchecked).
retrieve_result_unchecked(fn, r) ==
    IF ~fn THEN Val("None")
    ELSE IF r.null THEN Val("None")
    ELSE View(r.type, SubSeq(r.bytes, 1, r.size))

\* retrieve, lines 113-132.
retrieve_result(fn, r) ==
    IF ~fn THEN Val("None")
    ELSE IF r.type = 0 THEN Val("None")
    ELSE IF r.null THEN Val("None")
    ELSE View(r.type, SubSeq(r.bytes, 1, r.size))

\* Variant: the handle remembers the view it last produced for a key.
retrieve_with_cached(K, r) ==
    /\ loading
    /\ resp' = r
    /\ ret' = IF op.name = "retrieve" /\ op.key = K /\ ret.kind = "View"
              THEN ret
              ELSE retrieve_result(retrieve_fn, r)
    /\ op' = Op("retrieve", K, {})
    /\ calls' = <<>>
    /\ processed' = <<>>
    /\ taken' = EmptyMap
    /\ UNCHANGED <<properties, store_fn, loading, retrieve_fn, alive, writer, storage,
                   draftCount, storeCount, fate, atom, saved, redrafted>>

\* retrieve, given what the host's callback answers (r is never read when the
\* retrieve function is null: the callback is not called).
retrieve_with(K, r) ==
    /\ loading
    /\ resp' = r
    /\ ret' = retrieve_result(retrieve_fn, r)
    /\ op' = Op("retrieve", K, {})
    /\ calls' = <<>>
    /\ processed' = <<>>
    /\ taken' = EmptyMap
    /\ UNCHANGED <<properties, store_fn, loading, retrieve_fn, alive, writer, storage,
                   draftCount, storeCount, fate, atom, saved, redrafted>>

\* retrieve against the host that stored what the save session committed.
retrieve(K) == retrieve_with(K, HostRetrieve(storage, K))

(* ------------------------------------------------------------------ Spec *)
Next ==
    \/ \E K \in Keys : draft(K)
    \/ WriteHeader
    \/ WritePayload
    \/ \E K \in Keys : commit(K)
    \/ commit_all
    \/ discard_all
    \/ \E K \in Keys : discard(K)
    \/ Drop
    \/ retrieve_new
    \/ \E K \in Keys : retrieve(K)

Spec == Init /\ [][Next]_vars

(* ---------------------------------------------------------- RetrieveSpec *)
\* A load session against any host: the callback may answer a null or a valid
\* pointer into the host's memory, any size within it and any type, zero included.
Mem == [i \in 1..MaxMem |-> 16 + i]

HostTypes == {0, 1, 2}

HostResponses ==
    {[null |-> TRUE, size |-> n, type |-> t, bytes |-> <<>>] :
        n \in 0..MaxMem, t \in HostTypes}
    \cup
    {r \in {[null |-> FALSE, size |-> n, type |-> t, bytes |-> SubSeq(Mem, p + 1, MaxMem)] :
                n \in 0..MaxMem, t \in HostTypes, p \in 0..MaxMem} :
        r.size <= Len(r.bytes)}

retrieve_any(K) == \E r \in HostResponses : retrieve_with(K, r)

InitRetrieve ==
    /\ properties = EmptyMap
    /\ store_fn = FALSE
    /\ loading = FALSE
    /\ retrieve_fn = FALSE
    /\ alive = FALSE
    /\ writer = 0
    /\ storage = EmptyMap
    /\ op = Op("new", 0, {})
    /\ ret = Unit
    /\ calls = <<>>
    /\ processed = <<>>
    /\ draftCount = [k \in Keys |-> 0]
    /\ storeCount = [k \in Keys |-> 0]
    /\ fate = [k \in Keys |-> "never"]
    /\ atom = [k \in Keys |-> NoAtom]
    /\ saved = [k \in Keys |-> NoSaved]
    /\ redrafted = [k \in Keys |-> FALSE]
    /\ taken = EmptyMap
    /\ resp = NoResp

NextRetrieve ==
    \/ retrieve_new
    \/ \E K \in Keys : retrieve_any(K)

RetrieveSpec == InitRetrieve /\ [][NextRetrieve]_vars

(* ---------------------------------------------------------------- claims *)
\* C1: while the handle lives, a key is in the properties mapping if and only
\* if draft(K) was called and no commit(K), discard(K), commit_all or
\* discard_all has been called since.
C1_PresentIffDrafted ==
    alive => \A K \in Keys : (K \in DOMAIN properties) <=> (fate[K] = "drafted")

C1_Witness ==
    /\ alive
    /\ op.name = "discard"
    /\ fate[op.key] = "discarded"
    /\ op.key \notin DOMAIN properties
    /\ properties # EmptyMap

\* C2: a well-formed atom (type T, size = length of its bytes) drafted at K and
\* committed successfully to a host that stores what it receives is retrieved
\* at K, through the host's retrieve function, as a view of type T holding
\* exactly those bytes.
C2_RoundTrip ==
    (op.name = "retrieve" /\ retrieve_fn /\ saved[op.key].wf)
        => ret = View(saved[op.key].type, saved[op.key].bytes)

C2_Witness ==
    /\ op.name = "retrieve"
    /\ retrieve_fn
    /\ saved[op.key].wf
    /\ ret.kind = "View"
    /\ ret.type = 2
    /\ ret.data = <<17, 18>>

\* C3: every host store call for K carries the type and the bytes written since
\* the most recent draft(K); nothing written under an earlier, replaced draft
\* of K reaches the host.
C3_OnlyLatestDraftStored ==
    [][\A i \in 1..Len(calls') :
          LET c == calls'[i]
          IN  /\ c.type = atom[c.key].type
              /\ c.size <= Len(atom[c.key].body)
              /\ c.data = SubSeq(atom[c.key].body, 1, c.size)]_vars

C3_Witness ==
    /\ op.name \in {"commit", "commit_all"}
    /\ \E i \in 1..Len(calls) : redrafted[calls[i].key] /\ calls[i].status = LV2_STATE_SUCCESS

\* C4: dropping the handle makes no host store call, and a key still drafted at
\* the drop for which no store call was ever made is retrieved as nothing.
C4_DroppedDraftNeverStored ==
    ~alive =>
        /\ op.name = "drop" => calls = <<>>
        /\ \A K \in Keys : fate[K] = "drafted" /\ storeCount[K] = 0 => K \notin DOMAIN storage
        /\ (op.name = "retrieve" /\ fate[op.key] = "drafted" /\ storeCount[op.key] = 0)
              => ret.kind = "None"

C4_Witness ==
    /\ ~alive
    /\ op.name = "retrieve"
    /\ store_fn
    /\ retrieve_fn
    /\ fate[op.key] = "drafted"
    /\ storeCount[op.key] = 0
    /\ storage # EmptyMap
    /\ ret.kind = "None"

\* C5: commit(K) for a key never drafted, or drafted and then discarded,
\* returns None, makes no host store call and leaves the mapping (and the
\* host's storage) unchanged.
C5_CommitOfAbsentKey ==
    [][(op'.name = "commit" /\ fate[op'.key] \in {"never", "discarded"})
          => /\ ret'.kind = "None"
             /\ calls' = <<>>
             /\ properties' = properties
             /\ storage' = storage
             /\ storeCount' = storeCount]_vars

C5_Witness ==
    /\ op.name = "commit"
    /\ fate[op.key] = "discarded"
    /\ store_fn
    /\ ret.kind = "None"
    /\ properties # EmptyMap

\* C6: a key whose commit succeeded is absent from the mapping, and commit(K)
\* without a new draft(K) then returns None and makes no further store call.
C6_NoDuplicateStore ==
    [][/\ \A K \in Keys : fate'[K] = "committed" => K \notin DOMAIN properties'
       /\ (op'.name = "commit" /\ fate[op'.key] = "committed")
             => /\ ret'.kind = "None"
                /\ calls' = <<>>
                /\ storeCount' = storeCount
                /\ storage' = storage]_vars

C6_Witness ==
    /\ op.name = "commit"
    /\ fate[op.key] = "committed"
    /\ ret.kind = "None"
    /\ storeCount[op.key] = 1
    /\ op.key \in DOMAIN storage

\* C7: with a null store function no host call is ever made, and a commit
\* attempt on a drafted property (commit(K) on a drafted K, commit_all on a
\* non-empty mapping) returns BadCallback and removes the property.
C7_NullStoreFn ==
    ~store_fn =>
        /\ calls = <<>>
        /\ storage = EmptyMap
        /\ \A K \in Keys : storeCount[K] = 0
        /\ (op.name = "commit" /\ op.key \in op.had)
              => ret.kind = "BadCallback" /\ op.key \notin DOMAIN properties
        /\ (op.name = "commit_all" /\ op.had # {})
              => ret.kind = "BadCallback" /\ properties = EmptyMap

C7_Witness ==
    /\ ~store_fn
    /\ op.name = "commit_all"
    /\ Cardinality(op.had) = 2
    /\ ret.kind = "BadCallback"

\* C8 as stated: commit_all runs the commit validator on every key that was in
\* the mapping when it was called.
C8_EveryDraftAttempted ==
    op.name = "commit_all" => ProcessedKeys(processed) = op.had

\* C8, amended: commit_all runs the validator on the drafts one after another
\* only until the first one fails, with one host store call for each draft
\* that passes validation; every key in the mapping at call time is removed,
\* reached or not.
C8_AttemptedUntilFirstError ==
    op.name = "commit_all" =>
        /\ properties = EmptyMap
        /\ ProcessedKeys(processed) \subseteq op.had
        /\ Cardinality(ProcessedKeys(processed)) = Len(processed)
        /\ \A i \in 1..Len(processed) - 1 : processed[i].ret = "Ok"
        /\ ProcessedKeys(processed) # op.had
              => processed # <<>> /\ processed[Len(processed)].ret # "Ok"
        /\ LET passed == {i \in 1..Len(processed) :
                             processed[i].ret \notin {"BadCallback", "BadData"}}
           IN  /\ Len(calls) = Cardinality(passed)
               /\ \A i \in passed :
                     \E j \in 1..Len(calls) : calls[j].key = processed[i].key

C8_Witness ==
    /\ op.name = "commit_all"
    /\ store_fn
    /\ Cardinality(op.had) = 2
    /\ Len(processed) = 1
    /\ processed[1].ret = "BadData"
    /\ properties = EmptyMap

\* C9: commit_all returns Ok exactly when every property it processed was
\* committed; otherwise it returns the error of the first failing property,
\* which is the last one it attempts, and the host keeps what was stored for
\* the properties before it.
C9_FirstErrorNoRollback ==
    op.name = "commit_all" =>
        /\ ret.kind = "Ok" <=> \A i \in 1..Len(processed) : processed[i].ret = "Ok"
        /\ ret.kind = "Ok" => ProcessedKeys(processed) = op.had
        /\ ret.kind # "Ok" =>
              /\ processed # <<>>
              /\ ret.kind = processed[Len(processed)].ret
              /\ \A i \in 1..Len(processed) - 1 : processed[i].ret = "Ok"
        /\ Len(calls) <= Len(processed)
        /\ \A j \in 1..Len(calls) : calls[j].key \in ProcessedKeys(processed)
        /\ \A i \in 1..Len(processed) :
              processed[i].ret = "Ok" =>
                 /\ processed[i].key \in DOMAIN storage
                 /\ \E j \in 1..Len(calls) :
                       /\ calls[j].key = processed[i].key
                       /\ storage[processed[i].key] =
                             [type |-> calls[j].type, data |-> calls[j].data]

C9_Witness ==
    /\ op.name = "commit_all"
    /\ Len(processed) = 2
    /\ processed[1].ret = "Ok"
    /\ processed[2].ret = "NoSpace"
    /\ ret.kind = "NoSpace"
    /\ processed[1].key \in DOMAIN storage

\* C10: host store calls are made by commit and commit_all only, and a key is
\* never stored more often than it was drafted.
C10_StoreAtMostOncePerDraft ==
    /\ \A K \in Keys : storeCount[K] <= draftCount[K]
    /\ calls # <<>> => op.name \in {"commit", "commit_all"}

C10_Witness ==
    \E K \in Keys : draftCount[K] = 2 /\ storeCount[K] = 2

\* C11: retrieve returns None, never an error or a view, when there is no
\* retrieve function, when the host answers a null pointer (whatever size and
\* type it reports) or when the reported type is zero.
C11_RetrieveFailsSoft ==
    (op.name = "retrieve" /\ (~retrieve_fn \/ resp.null \/ resp.type = 0))
        => ret = Val("None")

C11_Witness ==
    /\ op.name = "retrieve"
    /\ retrieve_fn
    /\ ~resp.null
    /\ resp.size = 2
    /\ resp.type = 0
    /\ ret.kind = "None"

\* C17: with a retrieve function, a non-null pointer and a non-zero type,
\* retrieve returns a view of the reported type over exactly the reported
\* number of bytes at the reported pointer, whatever earlier calls returned.
C17_ViewIsWhatHostReports ==
    (op.name = "retrieve" /\ retrieve_fn /\ ~resp.null /\ resp.type # 0)
        => /\ ret.kind = "View"
           /\ ret.type = resp.type
           /\ Len(ret.data) = resp.size
           /\ \A i \in 1..resp.size : ret.data[i] = resp.bytes[i]

C17_Witness ==
    /\ op.name = "retrieve"
    /\ retrieve_fn
    /\ resp.type = 2
    /\ resp.size = 2
    /\ Len(resp.bytes) = 3
    /\ ret = View(2, <<17, 18>>)

\* The caller's draft cannot be committed: nothing was written (no header to
\* parse), or the header declares more bytes than follow it.
Malformed(a) == a = NoAtom \/ a.size > Len(a.body)

HasBit(f, b) == (f \div b) % 2 = 1

\* C12: commit_all on an empty mapping returns Ok, makes no host store call and
\* leaves the mapping empty.
C12_CommitAllEmpty ==
    (op.name = "commit_all" /\ op.had = {})
        => /\ ret.kind = "Ok"
           /\ calls = <<>>
           /\ processed = <<>>
           /\ properties = EmptyMap

C12_Witness ==
    /\ op.name = "commit_all"
    /\ op.had = {}
    /\ ~store_fn
    /\ ret.kind = "Ok"
    /\ \E K \in Keys : fate[K] = "failed"

\* C13: a host store call for the draft at K carries K, the type and the size
\* its header declares, exactly that many of the bytes following the header,
\* and flags with the bits IS_POD and IS_PORTABLE and no other.
C13_StoreCallArguments ==
    \A i \in 1..Len(calls) :
        LET c == calls[i]
        IN  /\ c.key \in DOMAIN taken
            /\ op.name = "commit" => c.key = op.key
            /\ c.type = taken[c.key].type
            /\ c.size = taken[c.key].size
            /\ c.size <= Len(taken[c.key].body)
            /\ c.data = SubSeq(taken[c.key].body, 1, c.size)
            /\ HasBit(c.flags, LV2_STATE_IS_POD)
            /\ HasBit(c.flags, LV2_STATE_IS_PORTABLE)
            /\ c.flags \div (2 * LV2_STATE_IS_PORTABLE) = 0

C13_Witness ==
    /\ op.name = "commit"
    /\ calls # <<>>
    /\ op.key \in DOMAIN taken
    /\ taken[op.key].size = 1
    /\ Len(taken[op.key].body) = 2
    /\ calls[1].data = <<17>>

\* C14: with a store function, committing a draft that was never written to,
\* or whose header declares more bytes than follow it, returns BadData and
\* makes no host store call for it.
C14_MalformedIsBadData ==
    store_fn =>
        /\ (op.name = "commit" /\ op.key \in DOMAIN taken /\ Malformed(taken[op.key]))
              => ret.kind = "BadData" /\ calls = <<>>
        /\ op.name = "commit_all" =>
              \A i \in 1..Len(processed) :
                  Malformed(taken[processed[i].key]) =>
                     /\ processed[i].ret = "BadData"
                     /\ \A j \in 1..Len(calls) : calls[j].key # processed[i].key

C14_Witness ==
    /\ store_fn
    /\ op.name = "commit"
    /\ op.key \in DOMAIN taken
    /\ taken[op.key].size = 2
    /\ Len(taken[op.key].body) = 1
    /\ ret.kind = "BadData"

\* C15: with a null store function, committing a malformed draft returns
\* BadCallback; BadData is never returned.
C15_BadCallbackBeforeBadData ==
    ~store_fn =>
        /\ ret.kind # "BadData"
        /\ \A i \in 1..Len(processed) : processed[i].ret = "BadCallback"
        /\ (op.name = "commit" /\ op.key \in DOMAIN taken /\ Malformed(taken[op.key]))
              => ret.kind = "BadCallback"
        /\ (op.name = "commit_all" /\ \E K \in DOMAIN taken : Malformed(taken[K]))
              => ret.kind = "BadCallback"

C15_Witness ==
    /\ ~store_fn
    /\ op.name = "commit"
    /\ op.key \in DOMAIN taken
    /\ taken[op.key] = NoAtom
    /\ ret.kind = "BadCallback"

\* C16: commit(K) on a drafted key removes it whatever the result, and
\* commit(K) on a key that is not in the mapping (for instance after a failed
\* commit) returns None without a host call.
C16_CommitAlwaysRemoves ==
    op.name = "commit" =>
        /\ op.key \notin DOMAIN properties
        /\ op.key \in op.had => ret.kind # "None" /\ fate[op.key] \in {"committed", "failed"}
        /\ op.key \notin op.had => ret.kind = "None" /\ calls = <<>>

C16_Witness ==
    /\ op.name = "commit"
    /\ store_fn
    /\ op.key \notin op.had
    /\ fate[op.key] = "failed"
    /\ ret.kind = "None"

\* C18: after commit_all the mapping is empty; the drafts it did not reach got
\* no host store call and a later commit of one of them returns None.
C18_CommitAllEmptiesMapping ==
    /\ op.name = "commit_all" =>
          /\ properties = EmptyMap
          /\ \A K \in op.had \ ProcessedKeys(processed) :
                \A j \in 1..Len(calls) : calls[j].key # K
    /\ \A K \in Keys : fate[K] = "unprocessed" => K \notin DOMAIN properties
    /\ (op.name = "commit" /\ fate[op.key] = "unprocessed")
          => ret.kind = "None" /\ calls = <<>>

C18_Witness ==
    /\ op.name = "commit"
    /\ store_fn
    /\ fate[op.key] = "unprocessed"
    /\ storeCount[op.key] = 0
    /\ ret.kind = "None"

\* C19: commit(K), discard(K) and draft(K) leave every other key's presence in
\* the mapping and every other draft's bytes as they were.
C19_OtherKeysUntouched ==
    [][op'.name \in {"commit", "discard", "draft"} =>
          \A J \in Keys \ {op'.key} :
              /\ (J \in DOMAIN properties') <=> (J \in DOMAIN properties)
              /\ J \in DOMAIN properties => properties'[J] = properties[J]]_vars

C19_Witness ==
    /\ op.name = "commit"
    /\ ret.kind = "NoSpace"
    /\ \E J \in DOMAIN properties : J # op.key /\ Len(properties[J]) = 3

====
